---- MODULE Spec2Model ----
(***************************************************************************)
(* A model of paul_cube_bandaged_graph.py: the signature codec             *)
(* (convert_hex_signature_to_bandage_array,                                *)
(* convert_cube_signature_to_bandage_array), the node categorizer          *)
(* (separate_nodes_by_categories), the edge stylist (process_edges), the   *)
(* per-cube render with its temporary directory (draw_cube_graph) and the  *)
(* batch drivers (process_csv_file, process_cube_list).                    *)
(*                                                                         *)
(* A text is a sequence of one-character strings.  A Python list is a      *)
(* sequence; a Python dict is a function; a raised exception is a record   *)
(* whose status names the exception class.                                 *)
(***************************************************************************)
EXTENDS Integers, Sequences, FiniteSets, TLC

VARIABLES
    cube_text,      \* the text handed to a decoder
    decoder,        \* which decoder the text is for: "hex" or "auto"
    decoded,        \* what the decoder returned or raised, NotRun before the call
    edges,          \* the explored edge set handed to nx.DiGraph
    capacities,     \* max_number_nodes_per_category
    categories,     \* separate_nodes_by_categories' degree -> category, NotRun before
    edge_labels,    \* process_edges' edge_labels dict
    show,           \* process_edges' (show_labels, show_arrows)
    edge_attrs,     \* the graph's edge attributes after process_edges, NotRun before
    render,         \* draw_cube_graph's frame: position, temporary directory, files
    batch,          \* the batch driver: entries, position, log, explorations, outputs
    svg,            \* draw_svg_cube's arguments and the elements it drew, NotRun before
    legend          \* draw_legend's arguments and the tables it built, NotRun before

vars == <<cube_text, decoder, decoded, edges, capacities, categories,
          edge_labels, show, edge_attrs, render, batch, svg, legend>>

NotRun == [status |-> "not_run"]

(***************************************************************************)
(* Characters and Python's int(text, 16).                                  *)
(***************************************************************************)
Whitespace == {" ", "\t", "\n"}

HexDigitValue ==
    [c \in {"0","1","2","3","4","5","6","7","8","9"} |->
        CASE c = "0" -> 0 [] c = "1" -> 1 [] c = "2" -> 2 [] c = "3" -> 3
          [] c = "4" -> 4 [] c = "5" -> 5 [] c = "6" -> 6 [] c = "7" -> 7
          [] c = "8" -> 8 [] c = "9" -> 9]
    @@ [c \in {"a","b","c","d","e","f"} |->
        CASE c = "a" -> 10 [] c = "b" -> 11 [] c = "c" -> 12
          [] c = "d" -> 13 [] c = "e" -> 14 [] c = "f" -> 15]
    @@ [c \in {"A","B","C","D","E","F"} |->
        CASE c = "A" -> 10 [] c = "B" -> 11 [] c = "C" -> 12
          [] c = "D" -> 13 [] c = "E" -> 14 [] c = "F" -> 15]

IsDigit(c, base) == c \in DOMAIN HexDigitValue /\ HexDigitValue[c] < base

IsHexDigit(c) == IsDigit(c, 16)

\* str.strip(): leading and trailing whitespace removed.
RECURSIVE lstrip(_)
lstrip(s) == IF s # <<>> /\ Head(s) \in Whitespace THEN lstrip(Tail(s)) ELSE s

RECURSIVE rstrip(_)
rstrip(s) ==
    IF s # <<>> /\ s[Len(s)] \in Whitespace
    THEN rstrip(SubSeq(s, 1, Len(s) - 1)) ELSE s

strip(s) == rstrip(lstrip(s))

\* The four binary digits of one hex digit, most significant first.
NibbleBits(v) == << (v \div 8) % 2, (v \div 4) % 2, (v \div 2) % 2, v % 2 >>

RECURSIVE DropLeadingZeros(_)
DropLeadingZeros(b) ==
    IF b # <<>> /\ Head(b) = 0 THEN DropLeadingZeros(Tail(b)) ELSE b

\* The digit part of an int literal: digits of the base in groups separated by
\* single underscores, no underscore first or last.
RECURSIVE DigitsWellFormed(_, _, _)
DigitsWellFormed(s, prev, base) ==
    IF s = <<>> THEN prev # "_" /\ prev # ""
    ELSE IF Head(s) = "_"
         THEN prev # "_" /\ prev # "" /\ DigitsWellFormed(Tail(s), "_", base)
    ELSE IsDigit(Head(s), base) /\ DigitsWellFormed(Tail(s), Head(s), base)

RECURSIVE DigitsToBits(_)
DigitsToBits(s) ==
    IF s = <<>> THEN <<>>
    ELSE IF Head(s) = "_" THEN DigitsToBits(Tail(s))
    ELSE NibbleBits(HexDigitValue[Head(s)]) \o DigitsToBits(Tail(s))

\* int(text, 16): surrounding whitespace, an optional sign, an optional 0x
\* prefix (one underscore may follow it), then the digits.  The value is kept
\* as sign and magnitude, the magnitude as its binary digits without leading
\* zeros (54-bit values do not fit the checker's integers).
py_int_base16(text) ==
    LET s0 == strip(text)
        signed == s0 # <<>> /\ Head(s0) \in {"+", "-"}
        s1 == IF signed THEN Tail(s0) ELSE s0
        prefixed == Len(s1) >= 2 /\ s1[1] = "0" /\ s1[2] \in {"x", "X"}
        s2 == IF prefixed THEN SubSeq(s1, 3, Len(s1)) ELSE s1
        s3 == IF prefixed /\ s2 # <<>> /\ Head(s2) = "_" THEN Tail(s2) ELSE s2
    IN  IF DigitsWellFormed(s3, "", 16)
        THEN LET mag == DropLeadingZeros(DigitsToBits(s3))
             IN  [ok |-> TRUE,
                  neg |-> signed /\ Head(s0) = "-" /\ mag # <<>>,
                  bits |-> mag]
        ELSE [ok |-> FALSE, neg |-> FALSE, bits |-> <<>>]

\* format(value, "0{width}b"): the sign, then the binary digits zero-padded
\* on the left so that sign and digits together fill the width.
py_format_0b(value, width) ==
    LET digits == IF value.bits = <<>> THEN <<0>> ELSE value.bits
        sign == IF value.neg THEN <<"-">> ELSE <<>>
        pad == width - Len(sign) - Len(digits)
    IN  sign
        \o [i \in 1..(IF pad > 0 THEN pad ELSE 0) |-> "0"]
        \o [i \in 1..Len(digits) |-> IF digits[i] = 1 THEN "1" ELSE "0"]

(***************************************************************************)
(* generate_hex_signature_connections: the 54 template connections.        *)
(***************************************************************************)
CUBE_N_CONNECTIONS == 54

\* A block whose last pair repeats the one before it.
YBlock_last_pair_repeated(z, y) ==
    << <<<<z, y, 0>>, <<z, y + 1, 0>>>>,
       <<<<z, y, 1>>, <<z, y + 1, 1>>>>,
       <<<<z, y, 2>>, <<z, y + 1, 2>>>>,
       <<<<z, y + 1, 0>>, <<z, y + 1, 1>>>>,
       <<<<z, y + 1, 0>>, <<z, y + 1, 1>>>> >>

YBlock(z, y) ==
    << <<<<z, y, 0>>, <<z, y + 1, 0>>>>,
       <<<<z, y, 1>>, <<z, y + 1, 1>>>>,
       <<<<z, y, 2>>, <<z, y + 1, 2>>>>,
       <<<<z, y + 1, 0>>, <<z, y + 1, 1>>>>,
       <<<<z, y + 1, 1>>, <<z, y + 1, 2>>>> >>

\* A template whose loop links only the first pair of layers.
ZLinks_first_layer_only(z) ==
    IF z < 1
    THEN [i \in 1..9 |-> << <<z, (i - 1) \div 3, (i - 1) % 3>>,
                            <<z + 1, (i - 1) \div 3, (i - 1) % 3>> >>]
    ELSE <<>>


ZLinks(z) ==
    IF z < 2
    THEN [i \in 1..9 |-> << <<z, (i - 1) \div 3, (i - 1) % 3>>,
                            <<z + 1, (i - 1) \div 3, (i - 1) % 3>> >>]
    ELSE <<>>

ZBlock(z) ==
    << <<<<z, 0, 0>>, <<z, 0, 1>>>>, <<<<z, 0, 1>>, <<z, 0, 2>>>> >>
    \o YBlock(z, 0) \o YBlock(z, 1) \o ZLinks(z)

generate_hex_signature_connections == ZBlock(0) \o ZBlock(1) \o ZBlock(2)

(***************************************************************************)
(* nx.Graph(connections) and nx.connected_components.                      *)
(***************************************************************************)
\* nx.Graph(edge list) adds, for each edge in turn, its first endpoint and
\* then its second, unless already present: a node's place in the graph's
\* iteration order is that of its first occurrence among the endpoints.
Endpoints(conns) ==
    [i \in 1..(2 * Len(conns)) |-> conns[(i + 1) \div 2][IF i % 2 = 1 THEN 1 ELSE 2]]

FirstOccurrence(flat, v) ==
    CHOOSE i \in 1..Len(flat) : flat[i] = v /\ \A j \in 1..(i - 1) : flat[j] # v

\* A graph that iterates its nodes in reverse insertion order.
GraphNodes_reversed(conns) ==
    LET flat == Endpoints(conns)
        nodes == {flat[i] : i \in 1..Len(flat)}
        first == [v \in nodes |-> FirstOccurrence(flat, v)]
    IN  [k \in 1..Cardinality(nodes) |->
            CHOOSE v \in nodes : Cardinality({w \in nodes : first[w] > first[v]}) = k - 1]


GraphNodes(conns) ==
    LET flat == Endpoints(conns)
        nodes == {flat[i] : i \in 1..Len(flat)}
        first == [v \in nodes |-> FirstOccurrence(flat, v)]
    IN  [k \in 1..Cardinality(nodes) |->
            CHOOSE v \in nodes : Cardinality({w \in nodes : first[w] < first[v]}) = k - 1]

Neighbours(conns, S) ==
    {conns[i][2] : i \in {j \in 1..Len(conns) : conns[j][1] \in S}}
    \cup {conns[i][1] : i \in {j \in 1..Len(conns) : conns[j][2] \in S}}

\* A search that stops at the direct neighbours.
plain_bfs_one_step(conns, S) == S \cup Neighbours(conns, S)

\* The set of nodes reached from the nodes of S (networkx's _plain_bfs).
RECURSIVE plain_bfs(_, _)
plain_bfs(conns, S) ==
    LET T == S \cup Neighbours(conns, S)
    IN  IF T = S THEN S ELSE plain_bfs(conns, T)

\* connected_components: for each node in iteration order that no earlier
\* component holds, the component reached from it.
connected_components(conns) ==
    LET order == GraphNodes(conns)
        reach == [k \in 1..Len(order) |-> plain_bfs(conns, {order[k]})]
        starts == {k \in 1..Len(order) : \A j \in 1..(k - 1) : order[k] \notin reach[j]}
    IN  [n \in 1..Cardinality(starts) |->
            reach[CHOOSE k \in starts : Cardinality({j \in starts : j < k}) = n - 1]]

(***************************************************************************)
(* convert_hex_signature_to_bandage_array.                                 *)
(***************************************************************************)
Coord == 0..2
Cubies == Coord \X Coord \X Coord

\* numpy ravel of a C-ordered (3,3,3) array: element [x,y,z] is item
\* 9x + 3y + z of the list (item 1 is the first).
RavelIndex(c) == 9 * c[1] + 3 * c[2] + c[3] + 1

CubieAt(i) == << (i - 1) \div 9, ((i - 1) \div 3) % 3, (i - 1) % 3 >>

\* [m for k, m in enumerate(conns) if signature_bin[k]]
SelectLive(conns, signature_bin) ==
    LET kept == {k \in 1..Len(conns) : signature_bin[k]}
    IN  [n \in 1..Cardinality(kept) |->
            conns[CHOOSE k \in kept : Cardinality({j \in kept : j < k}) = n - 1]]

\* cube[x, y, z] = k + 1 for every node of the k-th component (k from 0); a
\* later assignment overwrites an earlier one.
LabelCube(subgraphs) ==
    [c \in Cubies |->
        IF \E k \in 1..Len(subgraphs) : c \in subgraphs[k]
        THEN CHOOSE k \in 1..Len(subgraphs) :
                 /\ c \in subgraphs[k]
                 /\ \A j \in (k + 1)..Len(subgraphs) : c \notin subgraphs[j]
        ELSE 0]

ValueError == [status |-> "ValueError"]
Returned(cube) == [status |-> "ok", cube |-> cube]

convert_hex_signature_to_bandage_array(signature_hex) ==
    LET cube_int == py_int_base16(signature_hex)
        signature_text_bin == py_format_0b(cube_int, CUBE_N_CONNECTIONS)
        signature_bin == [k \in 1..Len(signature_text_bin) |->
                              signature_text_bin[k] = "1"]
        connections == SelectLive(generate_hex_signature_connections,
                                  signature_bin)
        cube == LabelCube(connected_components(connections))
    IN  IF ~cube_int.ok THEN ValueError
        ELSE IF Len(signature_bin) > CUBE_N_CONNECTIONS THEN ValueError
        ELSE Returned([i \in 1..27 |-> cube[CubieAt(i)]])

(***************************************************************************)
(* convert_cube_signature_to_bandage_array.                                *)
(***************************************************************************)
\* A pattern that lost its ";" alternative.
Separators_without_semicolon == {".", ",", " "}

\* The characters re.split("\.|,|;| ", ...) splits at.
Separators == {".", ",", ";", " "}

\* re.split at every separator character, empty pieces dropped
\* ([m for m in re.split(...) if m]): the pieces lie between consecutive
\* separator positions and the two ends of the text.
SplitItems(text) ==
    LET cuts == {0, Len(text) + 1} \cup {i \in 1..Len(text) : text[i] \in Separators}
        ranked == {<<Cardinality({c \in cuts : c < a}), a>> : a \in cuts}
        CutAt(r) == (CHOOSE p \in ranked : p[1] = r)[2]
        pieces == {<<CutAt(r), CutAt(r + 1)>> : r \in 0..(Cardinality(cuts) - 2)}
        nonempty == {p \in pieces : p[1] + 1 < p[2]}
        numbered == {<<Cardinality({q \in nonempty : q[1] < p[1]}) + 1, p>> :
                        p \in nonempty}
    IN  [n \in 1..Cardinality(nonempty) |->
            LET p == (CHOOSE e \in numbered : e[1] = n)[2]
            IN  SubSeq(text, p[1] + 1, p[2] - 1)]

RECURSIVE DecimalValue(_, _)
DecimalValue(s, acc) ==
    IF s = <<>> THEN acc
    ELSE IF Head(s) = "_" THEN DecimalValue(Tail(s), acc)
    ELSE DecimalValue(Tail(s), 10 * acc + HexDigitValue[Head(s)])

\* int(text): surrounding whitespace, an optional sign, decimal digits.
py_int_base10(text) ==
    LET s0 == strip(text)
        signed == s0 # <<>> /\ Head(s0) \in {"+", "-"}
        s1 == IF signed THEN Tail(s0) ELSE s0
    IN  IF DigitsWellFormed(s1, "", 10)
        THEN [ok |-> TRUE,
              value |-> IF signed /\ Head(s0) = "-"
                        THEN 0 - DecimalValue(s1, 0) ELSE DecimalValue(s1, 0)]
        ELSE [ok |-> FALSE, value |-> 0]

CUBE_LIST_SIZE == 27

\* Python's None, and "not cube" for None or a list.
None == [status |-> "None"]
IsFalsy(cube) == cube = None \/ cube.cube = <<>>

\* A cube that "not cube" takes for missing when it holds only zeros.
convert_cube_signature_zero_is_missing(cube_text_in) ==
    LET text == strip(cube_text_in)
        cube_text_items == SplitItems(text)
        hex == IF Len(cube_text_items) = 1
               THEN convert_hex_signature_to_bandage_array(cube_text_items[1])
               ELSE None
        ints == [k \in 1..Len(cube_text_items) |-> py_int_base10(cube_text_items[k])]
        cube == IF Len(cube_text_items) = CUBE_LIST_SIZE
                THEN Returned([k \in 1..Len(ints) |-> ints[k].value])
                ELSE hex
    IN  IF hex = ValueError THEN ValueError
        ELSE IF Len(cube_text_items) = CUBE_LIST_SIZE
                /\ \E k \in 1..Len(ints) : ~ints[k].ok THEN ValueError
        ELSE IF cube = None \/ \A k \in 1..Len(cube.cube) : cube.cube[k] = 0
             THEN ValueError
        ELSE cube

convert_cube_signature_to_bandage_array(cube_text_in) ==
    LET text == strip(cube_text_in)
        cube_text_items == SplitItems(text)
        hex == IF Len(cube_text_items) = 1
               THEN convert_hex_signature_to_bandage_array(cube_text_items[1])
               ELSE None
        ints == [k \in 1..Len(cube_text_items) |-> py_int_base10(cube_text_items[k])]
        cube == IF Len(cube_text_items) = CUBE_LIST_SIZE
                THEN Returned([k \in 1..Len(ints) |-> ints[k].value])
                ELSE hex
    IN  IF hex = ValueError THEN ValueError
        ELSE IF Len(cube_text_items) = CUBE_LIST_SIZE
                /\ \E k \in 1..Len(ints) : ~ints[k].ok THEN ValueError
        ELSE IF IsFalsy(cube) THEN ValueError
        ELSE cube

(***************************************************************************)
(* separate_nodes_by_categories.                                           *)
(***************************************************************************)
node_categories_thresholds_names == <<"cube", "circle_with_label", "label_only", "circle">>

\* nx.DiGraph(edges): the nodes are the endpoints of the edges.
DiGraphNodes(g) == {e[1] : e \in g} \cup {e[2] : e \in g}

\* nx.degree of a directed graph: in-degree plus out-degree.
Degree(g, n) == Cardinality({e \in g : e[1] = n}) + Cardinality({e \in g : e[2] = n})

\* invert_tuple_list_to_dict(nx.degree(graph)): degree -> the nodes of that degree.
nodes_degrees_inv(g) ==
    [d \in {Degree(g, n) : n \in DiGraphNodes(g)} |->
        {n \in DiGraphNodes(g) : Degree(g, n) = d}]

\* max_number_nodes_per_category.get(name, 0)
CapacityOf(caps, name) == IF name \in DOMAIN caps THEN caps[name] ELSE 0

\* node_categories_thresholds: the running sum of the capacities.
RECURSIVE ThresholdUpTo(_, _)
ThresholdUpTo(caps, k) ==
    IF k = 0 THEN 0
    ELSE ThresholdUpTo(caps, k - 1) + CapacityOf(caps, node_categories_thresholds_names[k])

node_categories_thresholds(caps) ==
    [k \in 1..Len(node_categories_thresholds_names) |-> ThresholdUpTo(caps, k)]

\* A loop that takes the degrees in ascending order.
NextDegree_ascending(degrees) == CHOOSE d \in degrees : \A e \in degrees : d <= e

\* sorted(..., key=degree, reverse=True): the next degree the loop takes.
NextDegree(degrees) == CHOOSE d \in degrees : \A e \in degrees : d >= e

\* A count that takes a threshold equal to the total as already exceeded.
CategoryFor_threshold_reached(thresholds, total) ==
    LET category_k == Cardinality({k \in 1..Len(thresholds) : thresholds[k] <= total})
    IN  IF category_k + 1 <= Len(node_categories_thresholds_names)
        THEN node_categories_thresholds_names[category_k + 1]
        ELSE "none"

\* category_k = len([m for m in thresholds if m < total]); the name at that
\* index, "none" on IndexError.
CategoryFor(thresholds, total) ==
    LET category_k == Cardinality({k \in 1..Len(thresholds) : thresholds[k] < total})
    IN  IF category_k + 1 <= Len(node_categories_thresholds_names)
        THEN node_categories_thresholds_names[category_k + 1]
        ELSE "none"

\* A loop that picks the category before it adds the group to the total.
RECURSIVE CategorizeDegrees_total_before_group(_, _, _, _)
CategorizeDegrees_total_before_group(inv, thresholds, remaining, total_nodes_by_degree) ==
    IF remaining = {} THEN <<>>
    ELSE LET degree == CHOOSE d \in remaining : \A e \in remaining : d >= e
             total == total_nodes_by_degree + Cardinality(inv[degree])
         IN  (degree :> (LET category_k ==
                                 Cardinality({k \in 1..Len(thresholds) :
                                                 thresholds[k] < total_nodes_by_degree})
                         IN  IF category_k + 1 <= Len(node_categories_thresholds_names)
                             THEN node_categories_thresholds_names[category_k + 1]
                             ELSE "none"))
             @@ CategorizeDegrees_total_before_group(inv, thresholds,
                                                     remaining \ {degree}, total)

\* The loop over the degree groups, with its running total.
RECURSIVE CategorizeDegrees(_, _, _, _)
CategorizeDegrees(inv, thresholds, remaining, total_nodes_by_degree) ==
    IF remaining = {} THEN <<>>
    ELSE LET degree == NextDegree(remaining)
             total == total_nodes_by_degree + Cardinality(inv[degree])
         IN  (degree :> CategoryFor(thresholds, total))
             @@ CategorizeDegrees(inv, thresholds, remaining \ {degree}, total)

separate_nodes_by_categories(g, caps) ==
    LET inv == nodes_degrees_inv(g)
    IN  [status |-> "ok",
         nodes_degree_categories |->
             CategorizeDegrees(inv, node_categories_thresholds(caps), DOMAIN inv, 0),
         nodes_degrees_inv |-> inv]

(***************************************************************************)
(* process_edges.                                                          *)
(***************************************************************************)
FACE_COLORS ==
    [L |-> "green", F |-> "red", R |-> "blue", B |-> "orange", U |-> "grey",
     D |-> "#E0E000"]

UNKNOWN_FACE_EDGE_COLOR == "#8020a0"

NoAttributes == [a \in {} |-> ""]

\* Edge attributes that show a composite label as written.
EdgeAttributes_literal_label(label, show_labels, show_arrows) ==
    LET col == IF label \in DOMAIN FACE_COLORS
               THEN FACE_COLORS[label] ELSE UNKNOWN_FACE_EDGE_COLOR
    IN  [color |-> col, arrowsize |-> 1, fontcolor |-> col, fontsize |-> 16]
        @@ (IF show_labels THEN "label" :> label ELSE NoAttributes)
        @@ (IF ~show_arrows THEN "arrowhead" :> "none" ELSE NoAttributes)

\* new_attributes for the edges of one label (arrowsize 1.0 is written 1).
EdgeAttributes(label, show_labels, show_arrows) ==
    LET col == IF label \in DOMAIN FACE_COLORS
               THEN FACE_COLORS[label] ELSE UNKNOWN_FACE_EDGE_COLOR
        edge_label == IF label \notin DOMAIN FACE_COLORS THEN "*" ELSE label
    IN  [color |-> col, arrowsize |-> 1, fontcolor |-> col, fontsize |-> 16]
        @@ (IF show_labels THEN "label" :> edge_label ELSE NoAttributes)
        @@ (IF ~show_arrows THEN "arrowhead" :> "none" ELSE NoAttributes)

\* The graph's edge attributes after the call: nx.set_edge_attributes sets
\* them on the labelled edges the graph has; the other edges keep none.
process_edges(g, labels, show_labels, show_arrows) ==
    [status |-> "ok",
     attrs |-> [e \in g |->
                   IF e \in DOMAIN labels
                   THEN EdgeAttributes(labels[e], show_labels, show_arrows)
                   ELSE NoAttributes]]

(***************************************************************************)
(* Inputs of the hex decoder.                                              *)
(***************************************************************************)
MaxShortLen == 2

ShortAlphabet == {"0", "1", "8", "F", "a", "-", "+", "_", "x", " ", "G"}

ShortTexts == UNION {[1..n -> ShortAlphabet] : n \in 0..MaxShortLen}

\* The number of hex digits that hold CUBE_N_CONNECTIONS bits.
SignatureDigits == (CUBE_N_CONNECTIONS + 3) \div 4

WideDigits == {"0", "1", "3", "4", "C", "F"}

\* Full-width signatures with at most two nonzero digits.
WideTexts ==
    {[p \in 1..SignatureDigits |-> IF p = i THEN a ELSE IF p = j THEN b ELSE "0"] :
        <<i, j, a, b>> \in {q \in (1..SignatureDigits) \X (1..SignatureDigits)
                                  \X WideDigits \X WideDigits : q[1] < q[2]}}

TextAllZero == [p \in 1..SignatureDigits |-> "0"]
TextAllOnes == <<"3">> \o [p \in 1..(SignatureDigits - 1) |-> "F"]
TextExample == <<"3","3","E","C","0","1","8","0","0","8","4","6">>
TextExampleLower == <<"3","3","e","c","0","1","8","0","0","8","4","6">>
TextMinusAllOnes == <<"-", "1">> \o [p \in 1..(SignatureDigits - 1) |-> "F"]
TextMinusTooLarge == <<"-", "2">> \o [p \in 1..(SignatureDigits - 1) |-> "0"]
TextTooLong == <<"1">> \o TextAllZero

HexTexts ==
    ShortTexts \cup WideTexts
    \cup {TextAllZero, TextAllOnes, TextExample, TextExampleLower,
          TextMinusAllOnes, TextMinusTooLarge, TextTooLong,
          <<"0", "x">> \o TextAllOnes, <<"-">> \o TextExample}

(***************************************************************************)
(* The specification of the hex decoder: a text, then one call.            *)
(***************************************************************************)
\* No call of draw_cube_graph in progress, no batch driver running.
IdleRender ==
    [pc |-> "idle", tmp |-> "none", preserve |-> FALSE, skip_legend |-> FALSE,
     copied |-> FALSE, output |-> FALSE, n_edges |-> 0, show |-> <<>>]

IdleBatch ==
    [driver |-> "none", pc |-> "idle", header |-> {}, entries |-> <<>>, k |-> 1,
     skip_cubes_without_names |-> FALSE, filter |-> FALSE, skip_legend |-> FALSE,
     log |-> <<>>, explored |-> {}, outputs |-> {}]

InitHex ==
    /\ cube_text \in HexTexts
    /\ decoder = "hex"
    /\ decoded = NotRun
    /\ edges = {}
    /\ capacities = <<>>
    /\ categories = NotRun
    /\ edge_labels = <<>>
    /\ show = <<TRUE, TRUE>>
    /\ edge_attrs = NotRun
    /\ render = IdleRender
    /\ svg = NotRun
    /\ legend = NotRun
    /\ batch = IdleBatch

DecodeHex ==
    /\ decoder = "hex"
    /\ decoded = NotRun
    /\ decoded' = convert_hex_signature_to_bandage_array(cube_text)
    /\ UNCHANGED <<cube_text, decoder, edges, capacities, categories,
                   edge_labels, show, edge_attrs, render, batch,
                   svg, legend>>

NextHex == DecodeHex

SpecHex == InitHex /\ [][NextHex]_vars

(***************************************************************************)
(* What a signature says, read directly off its digits: bit i of the       *)
(* 54-bit string (i = 1 is the most significant) and the live template     *)
(* connections.                                                            *)
(***************************************************************************)
IsPlainHex(t) == t # <<>> /\ \A i \in 1..Len(t) : IsHexDigit(t[i])

DigitBitLength(v) == IF v >= 8 THEN 4 ELSE IF v >= 4 THEN 3 ELSE IF v >= 2 THEN 2 ELSE 1

\* The number of bits the binary form of the value needs (0 for zero).
BitWidth(t) ==
    LET nonzero == {i \in 1..Len(t) : HexDigitValue[t[i]] # 0}
    IN  IF nonzero = {} THEN 0
        ELSE LET f == CHOOSE i \in nonzero : \A j \in nonzero : i <= j
             IN  4 * (Len(t) - f) + DigitBitLength(HexDigitValue[t[f]])

IsSignature(t) == IsPlainHex(t) /\ BitWidth(t) <= CUBE_N_CONNECTIONS

SignatureBit(t, i) ==
    LET r == CUBE_N_CONNECTIONS - i
        d == Len(t) - (r \div 4)
    IN  IF d < 1 THEN 0 ELSE NibbleBits(HexDigitValue[t[d]])[4 - (r % 4)]

LiveBits(t) == {i \in 1..CUBE_N_CONNECTIONS : SignatureBit(t, i) = 1}

Template == generate_hex_signature_connections

LiveConnections(t) == {Template[i] : i \in LiveBits(t)}

\* The cubies joined to those of S by a path of the given connections.
RECURSIVE JoinedTo(_, _)
JoinedTo(conns, S) ==
    LET T == S \cup {e[2] : e \in {f \in conns : f[1] \in S}}
               \cup {e[1] : e \in {f \in conns : f[2] \in S}}
    IN  IF T = S THEN S ELSE JoinedTo(conns, T)

LabelOf(c) == decoded.cube[RavelIndex(c)]

HexDecoded == decoder = "hex" /\ decoded # NotRun
HexReturned == HexDecoded /\ decoded.status = "ok"

\* C1: the array decoded from a hex signature of at most 54 bits labels the
\* cubies by the connected components of the live template connections: label 0
\* exactly for the cubies no live connection touches, one shared nonzero label
\* exactly for cubies joined by a path of live connections, as many nonzero
\* labels as components; the all-zero signature gives 27 zeros.
C1_LabelsAreComponents ==
    (HexDecoded /\ IsSignature(cube_text)) =>
        /\ decoded.status = "ok"
        /\ Len(decoded.cube) = 27
        /\ LET conns == LiveConnections(cube_text)
               touched == {e[1] : e \in conns} \cup {e[2] : e \in conns}
               components == {JoinedTo(conns, {c}) : c \in touched}
               labels == {LabelOf(c) : c \in touched}
           IN  /\ \A c \in Cubies : LabelOf(c) = 0 <=> c \notin touched
               /\ \A K \in components : \E c \in K :
                      K = {b \in Cubies : LabelOf(b) = LabelOf(c)}
               /\ Cardinality(labels) = Cardinality(components)
               /\ conns = {} => decoded.cube = [i \in 1..27 |-> 0]

\* A decode whose array has an untouched cubie, at least three groups and a
\* group that only a path of two or more connections holds together.
C1_Witness ==
    /\ HexReturned /\ IsSignature(cube_text)
    /\ \E c \in Cubies : LabelOf(c) = 0
    /\ Cardinality({LabelOf(c) : c \in Cubies} \ {0}) >= 3
    /\ \E a \in Cubies : \E b \in Cubies :
           /\ LabelOf(a) # 0 /\ LabelOf(a) = LabelOf(b) /\ a # b
           /\ <<a, b>> \notin LiveConnections(cube_text)
           /\ <<b, a>> \notin LiveConnections(cube_text)

\* C2: the signature with all 54 bits set decodes to 27 equal positive labels.
C2_AllBitsOneBlock ==
    (HexDecoded /\ cube_text = TextAllOnes) =>
        /\ decoded.status = "ok"
        /\ Len(decoded.cube) = 27
        /\ decoded.cube[1] > 0
        /\ \A i \in 1..27 : decoded.cube[i] = decoded.cube[1]

C2_Witness ==
    /\ HexReturned /\ cube_text = TextAllOnes
    /\ LiveBits(cube_text) = 1..CUBE_N_CONNECTIONS

\* C3: every text that is not a well-formed hex number of at most 54 bits is
\* rejected with ValueError by the hex decoder.
C3_RejectsEveryNonSignature ==
    (HexDecoded /\ ~IsSignature(cube_text)) => decoded.status = "ValueError"

\* C6: the groups are numbered 1, 2, ... in ascending order of the lowest live
\* template bit index touching each group, and "33EC01800846" decodes to the
\* array of the docstring.
ExampleArray ==
    << 3, 4, 5, 6, 1, 2, 7, 1, 2,
       3, 4, 5, 6, 1, 8, 7, 1, 8,
       9, 9, 0, 10, 10, 11, 12, 12, 11 >>

LowestBitOf(live, label) ==
    LET idx == {i \in live : LabelOf(Template[i][1]) = label}
    IN  CHOOSE i \in idx : \A j \in idx : i <= j

C6_LabelsInBitOrder ==
    (HexDecoded /\ IsSignature(cube_text)) =>
        /\ decoded.status = "ok"
        /\ LET live == LiveBits(cube_text)
               labels == {decoded.cube[i] : i \in 1..27} \ {0}
           IN  /\ labels = 1..Cardinality(labels)
               /\ \A p \in labels : \A q \in labels :
                      p < q => LowestBitOf(live, p) < LowestBitOf(live, q)
        /\ cube_text \in {TextExample, TextExampleLower} => decoded.cube = ExampleArray

C6_Witness ==
    /\ HexReturned /\ cube_text = TextExample
    /\ decoded.cube = ExampleArray
    /\ LowestBitOf(LiveBits(cube_text), 1) < LowestBitOf(LiveBits(cube_text), 2)

(***************************************************************************)
(* Inputs of the auto-detecting decoder: tokens joined by separator runs.  *)
(***************************************************************************)
MaxSepRun == 2
MaxFewTokens == 2
MaxExtraTokens == 1

\* The characters a run between two tokens is made of.
RunAlphabet == {".", ",", ";", " ", "\t"}
SepRuns == UNION {[1..n -> RunAlphabet] : n \in 1..MaxSepRun}
EdgeRuns == {<<>>} \cup SepRuns

ListTokens == {<<"0">>, <<"7">>}
OddTokens == {<<"1", "2">>, <<"-", "3">>}
HexTokens == {<<"0">>, <<"1", "F">>, <<"G">>, <<"-", "1">>}

\* Concatenation of parts[lo..hi], by halves.
RECURSIVE Concat(_, _, _)
Concat(parts, lo, hi) ==
    IF lo > hi THEN <<>>
    ELSE IF lo = hi THEN parts[lo]
    ELSE LET mid == (lo + hi) \div 2
         IN  Concat(parts, lo, mid) \o Concat(parts, mid + 1, hi)

\* run[0], token[1], run[1], token[2], ..., token[n], run[n]
JoinTokens(n, token, run) ==
    Concat([i \in 1..(2 * n + 1) |->
               IF i % 2 = 1 THEN run[(i - 1) \div 2] ELSE token[i \div 2]],
           1, 2 * n + 1)

\* CUBE_LIST_SIZE tokens, all alike but one, joined by one separator but for
\* one run (q = 0: before the first token, q = CUBE_LIST_SIZE: after the last).
ListTexts ==
    {JoinTokens(CUBE_LIST_SIZE,
                [i \in 1..CUBE_LIST_SIZE |-> IF i = q /\ i % 2 = 1 THEN odd ELSE tok],
                [i \in 0..CUBE_LIST_SIZE |->
                    IF i = q THEN run
                    ELSE IF i = 0 \/ i = CUBE_LIST_SIZE THEN <<>> ELSE <<sep>>]) :
        <<q, tok, odd, sep, run>> \in
            (0..CUBE_LIST_SIZE) \X ListTokens \X OddTokens \X {".", " "}
            \X (SepRuns \cup {<<>>})}

TokenCounts ==
    (0..MaxFewTokens) \cup ((CUBE_LIST_SIZE - 1)..(CUBE_LIST_SIZE + MaxExtraTokens))

\* n equal tokens joined by one separator.
CountTexts ==
    {JoinTokens(n, [i \in 1..n |-> tok],
                [i \in 0..n |-> IF i = 0 \/ i = n THEN <<>> ELSE <<sep>>]) :
        <<n, tok, sep>> \in TokenCounts \X (ListTokens \cup OddTokens \cup HexTokens)
                            \X Separators}

\* "3.4.5,6.1.2,7.1.2, 3.4.5,6.1.8,7.1.8, 9.9.0,10.10.11,12.12.11"
DocstringListText ==
    <<"3",".","4",".","5",",","6",".","1",".","2",",","7",".","1",".","2",","," ",
      "3",".","4",".","5",",","6",".","1",".","8",",","7",".","1",".","8",","," ",
      "9",".","9",".","0",",","1","0",".","1","0",".","1","1",",",
      "1","2",".","1","2",".","1","1">>

AutoTexts ==
    ListTexts \cup CountTexts
    \cup {DocstringListText, TextExample, TextAllZero, TextAllOnes, TextTooLong,
          <<" ">> \o TextExample \o <<"\n">>}

InitAuto ==
    /\ cube_text \in AutoTexts
    /\ decoder = "auto"
    /\ decoded = NotRun
    /\ edges = {}
    /\ capacities = <<>>
    /\ categories = NotRun
    /\ edge_labels = <<>>
    /\ show = <<TRUE, TRUE>>
    /\ edge_attrs = NotRun
    /\ render = IdleRender
    /\ svg = NotRun
    /\ legend = NotRun
    /\ batch = IdleBatch

DecodeAuto ==
    /\ decoder = "auto"
    /\ decoded = NotRun
    /\ decoded' = convert_cube_signature_to_bandage_array(cube_text)
    /\ UNCHANGED <<cube_text, decoder, edges, capacities, categories,
                   edge_labels, show, edge_attrs, render, batch,
                   svg, legend>>

NextAuto == DecodeAuto

SpecAuto == InitAuto /\ [][NextAuto]_vars

(***************************************************************************)
(* What a list text says, read off its characters: the maximal runs of     *)
(* characters that are not separators, in order.                           *)
(***************************************************************************)
TokensBy(text, seps) ==
    LET starts == {i \in 1..Len(text) :
                      text[i] \notin seps /\ (i = 1 \/ text[i - 1] \in seps)}
        ends == {i \in 1..Len(text) :
                    text[i] \notin seps /\ (i = Len(text) \/ text[i + 1] \in seps)}
        startNo == {<<Cardinality({j \in starts : j <= i}), i>> : i \in starts}
        endNo == {<<Cardinality({j \in ends : j <= i}), i>> : i \in ends}
    IN  [n \in 1..Cardinality(starts) |->
            SubSeq(text, (CHOOSE p \in startNo : p[1] = n)[2],
                         (CHOOSE p \in endNo : p[1] = n)[2])]

DecimalDigits == {"0", "1", "2", "3", "4", "5", "6", "7", "8", "9"}

\* An optional sign and then decimal digits only.
IsIntegerToken(tok) ==
    LET digits == IF tok # <<>> /\ tok[1] \in {"+", "-"} THEN Tail(tok) ELSE tok
    IN  digits # <<>> /\ \A i \in 1..Len(digits) : digits[i] \in DecimalDigits

RECURSIVE PlainValue(_)
PlainValue(digits) ==
    IF digits = <<>> THEN 0
    ELSE 10 * PlainValue(SubSeq(digits, 1, Len(digits) - 1))
         + HexDigitValue[digits[Len(digits)]]

IntegerValue(tok) ==
    IF tok[1] = "-" THEN 0 - PlainValue(Tail(tok))
    ELSE IF tok[1] = "+" THEN PlainValue(Tail(tok))
    ELSE PlainValue(tok)

AutoDecoded == decoder = "auto" /\ decoded # NotRun

\* A text of exactly 27 integer tokens under the given separators decodes to
\* the array of the tokens' values.
ListDecodesUnder(seps) ==
    LET toks == TokensBy(cube_text, seps)
    IN  (Len(toks) = 27 /\ \A i \in 1..27 : IsIntegerToken(toks[i])) =>
            decoded = Returned([i \in 1..27 |-> IntegerValue(toks[i])])

\* C4 as stated: '.', ',', ';' and every whitespace character, in runs of any
\* length and mixture, separate the 27 integer tokens of a list text, which
\* decodes to the array of the tokens' values.
C4_AnyWhitespaceSeparates ==
    AutoDecoded => ListDecodesUnder({".", ",", ";"} \cup Whitespace)

\* C4 as amended: '.', ',', ';' and the space character, in runs of any length
\* and mixture, separate the 27 integer tokens of a list text, which decodes to
\* the array of the tokens' values.
C4_SpaceAndPunctuationSeparate ==
    AutoDecoded => ListDecodesUnder({".", ",", ";", " "})

\* A decoded list whose separators include a run of two different characters
\* and a third separator character elsewhere.
C4_Witness ==
    /\ AutoDecoded /\ decoded.status = "ok"
    /\ Len(TokensBy(cube_text, {".", ",", ";", " "})) = 27
    /\ \E i \in 1..(Len(cube_text) - 1) : cube_text[i] = ";" /\ cube_text[i + 1] = " "
    /\ \E i \in 1..Len(cube_text) : cube_text[i] = "."
    /\ \E i \in 1..27 : decoded.cube[i] = 12

\* C5: the decoder dispatches on the number of items after splitting: 27 items
\* are parsed as a list, 1 item is decoded as a hex signature, any other count
\* raises ValueError; a valid list (27 zeros included) or a valid hex signature
\* (0 included) is never rejected.
C5_DispatchOnTokenCount ==
    AutoDecoded =>
        LET items == TokensBy(strip(cube_text), {".", ",", ";", " "})
            n == Len(items)
        IN  /\ n = 27 =>
                  decoded = IF \A i \in 1..27 : py_int_base10(items[i]).ok
                            THEN Returned([i \in 1..27 |-> py_int_base10(items[i]).value])
                            ELSE ValueError
            /\ n = 1 => decoded = convert_hex_signature_to_bandage_array(items[1])
            /\ n \notin {1, 27} => decoded = ValueError
            /\ (n = 27 /\ \A i \in 1..27 : IsIntegerToken(items[i])) =>
                  decoded.status = "ok"
            /\ (n = 1 /\ IsSignature(items[1])) => decoded.status = "ok"

\* A text of 28 items, rejected.
C5_Witness ==
    /\ AutoDecoded /\ decoded = ValueError
    /\ Len(TokensBy(strip(cube_text), {".", ",", ";", " "})) = 28

(***************************************************************************)
(* The specification of the node categorizer: a graph and a capacity       *)
(* table, then one call.                                                   *)
(***************************************************************************)
MaxNode == 2
MaxEdges == 3
MaxCapacity == 1

NodeIds == 0..MaxNode

EdgeSets == {g \in SUBSET (NodeIds \X NodeIds) : Cardinality(g) <= MaxEdges}

TierNames == {node_categories_thresholds_names[k] :
                 k \in 1..Len(node_categories_thresholds_names)}

\* Every table over the four names, and tables that lack a name.
CapacityTables ==
    [TierNames -> 0..MaxCapacity]
    \cup [TierNames \ {"label_only"} -> 0..MaxCapacity]
    \cup {<<>>}

InitCat ==
    /\ cube_text = <<>>
    /\ decoder = "none"
    /\ decoded = NotRun
    /\ edges \in EdgeSets
    /\ capacities \in CapacityTables
    /\ categories = NotRun
    /\ edge_labels = <<>>
    /\ show = <<TRUE, TRUE>>
    /\ edge_attrs = NotRun
    /\ render = IdleRender
    /\ svg = NotRun
    /\ legend = NotRun
    /\ batch = IdleBatch

Categorize ==
    /\ decoder = "none"
    /\ categories = NotRun
    /\ categories' = separate_nodes_by_categories(edges, capacities)
    /\ UNCHANGED <<cube_text, decoder, decoded, edges, capacities,
                   edge_labels, show, edge_attrs, render, batch,
                   svg, legend>>

NextCat == Categorize

SpecCat == InitCat /\ [][NextCat]_vars

\* The priority rank of a tier: cube < circle_with_label < label_only < circle < none.
TierRank(name) ==
    CASE name = "cube" -> 0
      [] name = "circle_with_label" -> 1
      [] name = "label_only" -> 2
      [] name = "circle" -> 3
      [] name = "none" -> 4

Categorized == categories # NotRun

\* In-degree plus out-degree, counted edge by edge (a self-loop counts twice).
TrueDegree(n) ==
    Cardinality({e \in edges : e[1] = n}) + Cardinality({e \in edges : e[2] = n})

\* The tier of a node: that of the degree group the categorizer put it in.
TierOfNode(n) ==
    categories.nodes_degree_categories[
        CHOOSE d \in DOMAIN categories.nodes_degrees_inv :
            n \in categories.nodes_degrees_inv[d]]

\* C7: every node of the graph gets the tier of its degree, so nodes of equal
\* degree share a tier, and of two occurring degrees the higher has the tier of
\* lower or equal priority rank.
C7_TiersFollowDegree ==
    Categorized =>
        LET nodes == {e[1] : e \in edges} \cup {e[2] : e \in edges}
            tiers == categories.nodes_degree_categories
        IN  /\ DOMAIN tiers = {TrueDegree(n) : n \in nodes}
            /\ \A n \in nodes :
                   /\ \E d \in DOMAIN categories.nodes_degrees_inv :
                          n \in categories.nodes_degrees_inv[d]
                   /\ TierOfNode(n) = tiers[TrueDegree(n)]
            /\ \A m \in nodes : \A n \in nodes :
                   /\ TrueDegree(m) = TrueDegree(n) => TierOfNode(m) = TierOfNode(n)
                   /\ TrueDegree(m) > TrueDegree(n) =>
                          TierRank(TierOfNode(m)) <= TierRank(TierOfNode(n))

\* A graph with two degree groups in different tiers, the lower degree shared
\* by two nodes.
C7_Witness ==
    /\ Categorized
    /\ \E a \in DOMAIN categories.nodes_degree_categories :
       \E b \in DOMAIN categories.nodes_degree_categories :
           /\ a > b
           /\ TierRank(categories.nodes_degree_categories[a])
                  < TierRank(categories.nodes_degree_categories[b])
           /\ Cardinality(categories.nodes_degrees_inv[b]) >= 2

(***************************************************************************)
(* The specification of the edge stylist: a labelled graph, then one call. *)
(***************************************************************************)
MaxStyledEdges == 3

EdgeChain(n) == {<<k, k + 1>> : k \in 0..(n - 1)}

\* The six face letters, composites of them, and other texts.
EdgeLabelTexts == {"L", "F", "R", "B", "U", "D", "LF", "UDU", "l", ""}

InitEdges ==
    /\ cube_text = <<>>
    /\ decoder = "edges"
    /\ decoded = NotRun
    /\ edges \in {EdgeChain(n) : n \in 0..MaxStyledEdges}
    /\ capacities = <<>>
    /\ categories = NotRun
    /\ edge_labels \in [edges -> EdgeLabelTexts]
    /\ show \in BOOLEAN \X BOOLEAN
    /\ edge_attrs = NotRun
    /\ render = IdleRender
    /\ svg = NotRun
    /\ legend = NotRun
    /\ batch = IdleBatch

StyleEdges ==
    /\ decoder = "edges"
    /\ edge_attrs = NotRun
    /\ edge_attrs' = process_edges(edges, edge_labels, show[1], show[2])
    /\ UNCHANGED <<cube_text, decoder, decoded, edges, capacities, categories,
                   edge_labels, show, render, batch,
                   svg, legend>>

NextEdges == StyleEdges

SpecEdges == InitEdges /\ [][NextEdges]_vars

EdgesStyled == edge_attrs # NotRun

FaceLetters == {"L", "F", "R", "B", "U", "D"}

\* C8: an edge labelled with one face letter gets that face's color as line
\* and font color and, when labels are shown, the letter as label; any other
\* label gets #8020a0 and, when labels are shown, the label "*"; when labels
\* are not shown no edge has a label attribute.
C8_EdgeColorsAndLabels ==
    EdgesStyled =>
        \A e \in edges :
            LET a == edge_attrs.attrs[e]
                l == edge_labels[e]
            IN  /\ l \in FaceLetters =>
                       /\ a["color"] = FACE_COLORS[l]
                       /\ a["fontcolor"] = FACE_COLORS[l]
                       /\ show[1] => a["label"] = l
                /\ l \notin FaceLetters =>
                       /\ a["color"] = "#8020a0"
                       /\ a["fontcolor"] = "#8020a0"
                       /\ show[1] => a["label"] = "*"
                /\ ~show[1] => "label" \notin DOMAIN a

\* Labels shown: an edge labelled L drawn green with its letter, beside an
\* edge labelled LF drawn in the fallback color with "*".
C8_Witness ==
    /\ EdgesStyled /\ show[1]
    /\ \E e \in edges : \E f \in edges :
           /\ edge_labels[e] = "L" /\ edge_attrs.attrs[e]["color"] = "green"
           /\ edge_attrs.attrs[e]["label"] = "L"
           /\ edge_labels[f] = "LF" /\ edge_attrs.attrs[f]["color"] = "#8020a0"
           /\ edge_attrs.attrs[f]["label"] = "*"

(***************************************************************************)
(* draw_cube_graph, step by step.  render.tmp is the temporary directory:  *)
(* "none" before tempfile.TemporaryDirectory(), then "exists", then        *)
(* "deleted".  The function never calls cleanup(): the directory goes when *)
(* the TemporaryDirectory object is finalized, which CPython does as soon  *)
(* as the frame that holds it is released: at once on return, but after a  *)
(* raise only when the traceback (which holds the frame) is dropped or the *)
(* interpreter exits.                                                      *)
(***************************************************************************)
Frame(preserve, skip_legend) ==
    [pc |-> "start", tmp |-> "none", preserve |-> preserve,
     skip_legend |-> skip_legend, copied |-> FALSE, output |-> FALSE,
     n_edges |-> 0, show |-> <<>>]

\* os.makedirs(output_temporary_folder), tempfile.TemporaryDirectory(...)
RenderStart ==
    /\ render.pc = "start"
    /\ render' = [render EXCEPT !.pc = "nodes", !.tmp = "exists"]
    /\ UNCHANGED <<cube_text, decoder, decoded, edges, capacities, categories,
                   edge_labels, show, edge_attrs, batch,
                   svg, legend>>

\* separate_nodes_by_categories, process_nodes (the cube thumbnails)
RenderNodes ==
    /\ render.pc = "nodes"
    /\ render' = [render EXCEPT !.pc = "edges"]
    /\ UNCHANGED <<cube_text, decoder, decoded, edges, capacities, categories,
                   edge_labels, show, edge_attrs, batch,
                   svg, legend>>

SHOW_EDGE_LABELS_MAX == 300
SHOW_EDGE_ARROWS_MAX == 2000

\* The numbers of edges a graph is drawn with: at and next to the two limits.
EdgeCounts ==
    {0, SHOW_EDGE_LABELS_MAX, SHOW_EDGE_LABELS_MAX + 1,
     SHOW_EDGE_ARROWS_MAX, SHOW_EDGE_ARROWS_MAX + 1}

\* The show_labels and show_arrows arguments of the call of process_edges.
ShowFlags(n_edges) ==
    <<n_edges <= SHOW_EDGE_LABELS_MAX, n_edges < SHOW_EDGE_ARROWS_MAX>>

\* process_edges, called with the flags that len(edges) gives; render.n_edges
\* is the length of the edges argument, render.show the two flags.
RenderEdges ==
    /\ render.pc = "edges"
    /\ \E n_edges \in EdgeCounts :
           render' = [render EXCEPT !.pc = "base", !.n_edges = n_edges,
                                    !.show = ShowFlags(n_edges)]
    /\ UNCHANGED <<cube_text, decoder, decoded, edges, capacities, categories,
                   edge_labels, show, edge_attrs, batch,
                   svg, legend>>

\* The base graph: written to the output file when the legend is skipped,
\* else to the temporary directory.
RenderBase ==
    /\ render.pc = "base"
    /\ render' = IF render.skip_legend
                 THEN [render EXCEPT !.pc = "copy", !.output = TRUE]
                 ELSE [render EXCEPT !.pc = "legend"]
    /\ UNCHANGED <<cube_text, decoder, decoded, edges, capacities, categories,
                   edge_labels, show, edge_attrs, batch,
                   svg, legend>>

\* draw_legend, dot_index.write
RenderLegend ==
    /\ render.pc = "legend"
    /\ render' = [render EXCEPT !.pc = "main"]
    /\ UNCHANGED <<cube_text, decoder, decoded, edges, capacities, categories,
                   edge_labels, show, edge_attrs, batch,
                   svg, legend>>

\* dot_main.write(output_filename)
RenderMain ==
    /\ render.pc = "main"
    /\ render' = [render EXCEPT !.pc = "copy", !.output = TRUE]
    /\ UNCHANGED <<cube_text, decoder, decoded, edges, capacities, categories,
                   edge_labels, show, edge_attrs, batch,
                   svg, legend>>

\* The copy to output_temporary_folder when it is set, then the return: the
\* frame is released and with it the temporary directory.
RenderReturn ==
    /\ render.pc = "copy"
    /\ render' = [render EXCEPT !.pc = "returned", !.copied = render.preserve,
                                !.tmp = "deleted"]
    /\ UNCHANGED <<cube_text, decoder, decoded, edges, capacities, categories,
                   edge_labels, show, edge_attrs, batch,
                   svg, legend>>

\* An error raised by the step in progress (a file that cannot be written, a
\* layout engine that fails): the exception leaves draw_cube_graph, no later
\* step runs, the frame stays referenced by the traceback.
RenderRaise ==
    /\ \/ render.pc \in {"start", "nodes", "edges", "base", "legend", "main"}
       \/ render.pc = "copy" /\ render.preserve
    /\ render' = [render EXCEPT !.pc = "raised"]
    /\ UNCHANGED <<cube_text, decoder, decoded, edges, capacities, categories,
                   edge_labels, show, edge_attrs, batch,
                   svg, legend>>

(***************************************************************************)
(* The batch drivers: process_cube_list with process_single_cube, and      *)
(* process_csv_file.  explore_cube is the external exploration oracle: it  *)
(* returns or raises.  batch.explored holds the entries handed to it,      *)
(* batch.outputs the entries whose output file was written.                *)
(***************************************************************************)
Logged(msg, k) == [msg |-> msg, k |-> k]

\* What one turn of a driver's loop does with its entry: a KeyError on a
\* missing column, a silent skip, a logged skip, or the exploration and the
\* drawing.  process_cube_list hands the text over as it is; process_csv_file
\* strips the Hexa and Name cells, passes over empty signatures and (on
\* request) unnamed cubes, and may filter by the number of nodes.
TurnOutcomes(driver, row, header, skip_cubes_without_names, filter) ==
    LET cube_signature == IF driver = "csv" THEN strip(row.Hexa) ELSE row.Hexa
        cube_name == strip(row.Name)
        known == "N" \in header /\ "E" \in header /\ row.NE
    IN  IF driver = "csv" /\ ("Hexa" \notin header \/ "Name" \notin header)
        THEN {"KeyError"}
        ELSE IF driver = "csv" /\ cube_signature = <<>> THEN {"skip"}
        ELSE IF driver = "csv" /\ skip_cubes_without_names /\ cube_name = <<>>
             THEN {"skip"}
        ELSE IF convert_cube_signature_to_bandage_array(cube_signature) = ValueError
             THEN {"signature error"}
        ELSE {"explore raises", "draw"}
             \cup (IF driver = "csv" /\ filter
                   THEN {IF known THEN "filtered" ELSE "explored, filtered"}
                   ELSE {})

\* The lines the turn prints.
TurnLog(driver, outcome, k) ==
    IF driver = "list"
    THEN <<Logged("Processing cube", k)>>
         \o (CASE outcome = "signature error" -> <<Logged("hex signature error:", k)>>
               [] outcome = "draw" -> <<Logged(" cube: ", k)>>
               [] OTHER -> <<>>)
    ELSE CASE outcome = "signature error" -> <<Logged(" cube signature error:", k)>>
           [] outcome \in {"filtered", "explored, filtered"} ->
                  <<Logged(" skipping cube", k)>>
           [] outcome = "draw" -> <<Logged("Cube:", k)>>
           [] OTHER -> <<>>

\* One turn of the loop of process_cube_list (through process_single_cube)
\* or of process_csv_file, up to the call of draw_cube_graph.
BatchTurn ==
    /\ batch.driver \in {"list", "csv"}
    /\ batch.pc = "loop" /\ batch.k <= Len(batch.entries)
    /\ \E outcome \in TurnOutcomes(batch.driver, batch.entries[batch.k], batch.header,
                                   batch.skip_cubes_without_names, batch.filter) :
          /\ batch' =
                 [batch EXCEPT
                     !.log = @ \o TurnLog(batch.driver, outcome, batch.k),
                     !.explored = IF outcome \in {"draw", "explored, filtered",
                                                  "explore raises"}
                                  THEN @ \cup {batch.k} ELSE @,
                     !.k = IF outcome \in {"skip", "signature error", "filtered",
                                           "explored, filtered"}
                           THEN @ + 1 ELSE @,
                     !.pc = CASE outcome \in {"KeyError", "explore raises"} -> "crashed"
                              [] outcome = "draw" -> "drawing"
                              [] OTHER -> @]
          /\ render' = IF outcome = "draw"
                       THEN Frame(FALSE, batch.skip_legend)
                       ELSE render
    /\ UNCHANGED <<cube_text, decoder, decoded, edges, capacities, categories,
                   edge_labels, show, edge_attrs,
                   svg, legend>>

\* A caller of draw_cube_graph other than the drivers, free to ask for the
\* temporary files to be kept.
ApiCall ==
    /\ batch.driver = "api" /\ batch.pc = "loop" /\ batch.k <= Len(batch.entries)
    /\ \E preserve \in BOOLEAN :
           render' = Frame(preserve, batch.skip_legend)
    /\ batch' = [batch EXCEPT !.explored = @ \cup {batch.k}, !.pc = "drawing"]
    /\ UNCHANGED <<cube_text, decoder, decoded, edges, capacities, categories,
                   edge_labels, show, edge_attrs,
                   svg, legend>>

\* draw_cube_graph returned: the loop goes on with the next entry.
DrawReturned ==
    /\ batch.pc = "drawing" /\ render.pc = "returned"
    /\ batch' = [batch EXCEPT !.outputs = @ \cup {batch.k}, !.k = @ + 1, !.pc = "loop"]
    /\ render' = IdleRender
    /\ UNCHANGED <<cube_text, decoder, decoded, edges, capacities, categories,
                   edge_labels, show, edge_attrs,
                   svg, legend>>

\* draw_cube_graph raised: nothing in the caller catches it.
DrawRaised ==
    /\ batch.pc = "drawing" /\ render.pc = "raised"
    /\ batch' = [batch EXCEPT !.pc = "crashed",
                              !.outputs = IF render.output THEN @ \cup {batch.k} ELSE @]
    /\ UNCHANGED <<cube_text, decoder, decoded, edges, capacities, categories,
                   edge_labels, show, edge_attrs, render,
                   svg, legend>>

\* The uncaught exception ends the interpreter (or the caller drops the
\* traceback): the frame is released and the temporary directory finalized.
ReleaseFrame ==
    /\ batch.pc = "crashed" /\ render.pc = "raised"
    /\ render' = [render EXCEPT !.pc = "released",
                                !.tmp = IF @ = "exists" THEN "deleted" ELSE @]
    /\ UNCHANGED <<cube_text, decoder, decoded, edges, capacities, categories,
                   edge_labels, show, edge_attrs, batch,
                   svg, legend>>

\* The loop ran out of entries.
BatchDone ==
    /\ batch.pc = "loop" /\ batch.k > Len(batch.entries)
    /\ batch' = [batch EXCEPT !.pc = "done"]
    /\ UNCHANGED <<cube_text, decoder, decoded, edges, capacities, categories,
                   edge_labels, show, edge_attrs, render,
                   svg, legend>>

(***************************************************************************)
(* The inputs of a batch and the specification of a run.                   *)
(***************************************************************************)
MaxBatch == 2

ValidEntryTexts == {<<"0">>, <<"1", "F">>}
InvalidEntryTexts == {<<"G">>, <<"-", "1">>, <<" ">>, <<"0", " ", "0">>, TextTooLong}
EntryTexts == ValidEntryTexts \cup InvalidEntryTexts

ListEntries == {[Hexa |-> t, Name |-> <<>>, NE |-> FALSE] : t \in EntryTexts}

CsvRows ==
    {[Hexa |-> t, Name |-> <<"a">>, NE |-> FALSE] : t \in EntryTexts}
    \cup {[Hexa |-> <<"0">>, Name |-> <<>>, NE |-> FALSE],
          [Hexa |-> <<"G">>, Name |-> <<>>, NE |-> FALSE],
          [Hexa |-> <<"0">>, Name |-> <<"a">>, NE |-> TRUE]}

CsvHeaders ==
    {{"Hexa", "Name", "N", "E"}, {"Hexa", "Name"}, {"Hexa", "N", "E"}, {"Name", "N", "E"}}

SeqsUpTo(S, n) == UNION {[1..m -> S] : m \in 0..n}

Batches ==
    {[IdleBatch EXCEPT !.driver = "list", !.pc = "loop", !.entries = e,
                       !.skip_legend = sl] :
        <<e, sl>> \in SeqsUpTo(ListEntries, MaxBatch) \X BOOLEAN}
    \cup
    {[IdleBatch EXCEPT !.driver = "csv", !.pc = "loop", !.entries = o[1],
                       !.header = o[2], !.skip_cubes_without_names = o[3],
                       !.filter = o[4], !.skip_legend = o[5]] :
        o \in SeqsUpTo(CsvRows, MaxBatch) \X CsvHeaders \X BOOLEAN \X BOOLEAN \X BOOLEAN}
    \cup
    {[IdleBatch EXCEPT !.driver = "api", !.pc = "loop",
                       !.entries = <<[Hexa |-> <<"0">>, Name |-> <<>>, NE |-> FALSE]>>,
                       !.skip_legend = sl] : sl \in BOOLEAN}

Init ==
    /\ cube_text = <<>>
    /\ decoder = "batch"
    /\ decoded = NotRun
    /\ edges = {}
    /\ capacities = <<>>
    /\ categories = NotRun
    /\ edge_labels = <<>>
    /\ show = <<TRUE, TRUE>>
    /\ edge_attrs = NotRun
    /\ render = IdleRender
    /\ svg = NotRun
    /\ legend = NotRun
    /\ batch \in Batches

Next ==
    \/ BatchTurn
    \/ ApiCall
    \/ RenderStart
    \/ RenderNodes
    \/ RenderEdges
    \/ RenderBase
    \/ RenderLegend
    \/ RenderMain
    \/ RenderReturn
    \/ RenderRaise
    \/ DrawReturned
    \/ DrawRaised
    \/ ReleaseFrame
    \/ BatchDone

Spec == Init /\ [][Next]_vars

(***************************************************************************)
(* Claims about the temporary directory and the batch drivers.             *)
(***************************************************************************)
RenderFinished == render.pc \in {"returned", "raised", "released"}

\* C9: the temporary directory of draw_cube_graph is deleted by the time the
\* render has finished, after a return and after a raise alike, and when the
\* caller asked to keep the temporary files they were copied to the caller's
\* folder before the directory was deleted.
C9_TempDirGoneOnEveryExit ==
    /\ RenderFinished => render.tmp # "exists"
    /\ (render.tmp = "deleted" /\ render.preserve) => render.copied

\* What holds of the directory: a render that returns leaves it deleted, with
\* the copy made when it was asked for.
TempDirGoneOnReturn ==
    render.pc = "returned" =>
        render.tmp = "deleted" /\ (render.preserve => render.copied)

\* The entry is a list of 27 integers or one hexadecimal signature of at
\* most 54 bits.
ValidSignatureText(text) ==
    LET items == TokensBy(strip(text), {".", ",", ";", " "})
    IN  \/ Len(items) = CUBE_LIST_SIZE /\ \A i \in 1..Len(items) : IsIntegerToken(items[i])
        \/ Len(items) = 1 /\ IsSignature(items[1])

\* The entry reaches the decoder: every entry of a list; a CSV row when the
\* file has the Hexa and Name columns, the row a signature, and the row is
\* not passed over for having no name.
EntryCarriesSignature(i) ==
    \/ batch.driver = "list"
    \/ /\ batch.driver = "csv"
       /\ {"Hexa", "Name"} \subseteq batch.header
       /\ strip(batch.entries[i].Hexa) # <<>>
       /\ ~(batch.skip_cubes_without_names /\ strip(batch.entries[i].Name) = <<>>)

SignatureErrorLogged(i) ==
    \E j \in 1..Len(batch.log) :
        /\ batch.log[j].k = i
        /\ batch.log[j].msg \in {"hex signature error:", " cube signature error:"}

\* The entry was skipped with a message: never explored, never drawn, the
\* loop neither stopped at it nor went past it without the message.
SkippedWithMessage(i) ==
    /\ i \notin batch.explored
    /\ i \notin batch.outputs
    /\ ~(batch.k = i /\ batch.pc \in {"drawing", "crashed"})
    /\ batch.k > i => SignatureErrorLogged(i)

\* C10: in both batch drivers an entry whose signature is invalid is skipped
\* with a printed message, is neither explored nor drawn, and does not stop
\* the batch.
C10_InvalidEntriesSkipped ==
    \A i \in 1..Len(batch.entries) :
        (EntryCarriesSignature(i) /\ ~ValidSignatureText(batch.entries[i].Hexa))
            => SkippedWithMessage(i)

\* What holds of the drivers: an entry on which the decoder raises ValueError
\* is skipped with a message.
RejectedEntriesSkipped ==
    \A i \in 1..Len(batch.entries) :
        (/\ EntryCarriesSignature(i)
         /\ convert_cube_signature_to_bandage_array(batch.entries[i].Hexa) = ValueError)
            => SkippedWithMessage(i)

\* The driver was stopped by an exception of explore_cube or draw_cube_graph
\* (the entry was handed to the explorer), or by a KeyError on a column of
\* the CSV header (it was not).
StoppedByCubeFailure == batch.pc = "crashed" /\ batch.k \in batch.explored
StoppedByKeyError == batch.pc = "crashed" /\ batch.k \notin batch.explored

\* C11: in a batch run a failure raised while exploring or rendering one cube
\* is caught at the batch level, so it never stops the driver and the later
\* cubes are still rendered.
C11_CubeFailureNeverStopsBatch ==
    batch.driver \in {"list", "csv"} => ~StoppedByCubeFailure

\* What holds of the drivers: the entries before the failing one keep their
\* output files, and no later entry is touched.
FailureEndsBatchAtEntry ==
    (batch.driver \in {"list", "csv"} /\ batch.pc = "crashed") =>
        /\ batch.explored \subseteq 1..batch.k
        /\ batch.outputs \subseteq 1..batch.k

\* C13: Hexa is the only column a batch CSV must have: a header without Name,
\* N or E is processed like one that has them, and only a header without Hexa
\* is fatal.
C13_OnlyHexaColumnRequired ==
    batch.driver = "csv" =>
        /\ "Hexa" \in batch.header => ~StoppedByKeyError
        /\ "Hexa" \notin batch.header => batch.explored = {} /\ batch.outputs = {}

\* What holds of process_csv_file: with Hexa and Name in the header, the
\* N and E columns may be missing.
HexaAndNameColumnsSuffice ==
    (batch.driver = "csv" /\ {"Hexa", "Name"} \subseteq batch.header)
        => ~StoppedByKeyError

(***************************************************************************)
(* draw_svg_cube: the six faces of a cube of any order, each with its      *)
(* painted cells, its separator lines and its border.  The projection only *)
(* chooses the transform of each face and is left out, as are the stroke   *)
(* widths and the label text.                                              *)
(***************************************************************************)
FaceNames == {"L", "F", "R", "B", "U", "D"}

\* np.reshape(cube, (n, n, n))[i][j][k], all indices from 0.
cube_np(cube, n, i, j, k) == cube[i * n * n + j * n + k + 1]

\* The face grids, face[y][x] with y and x from 0.
FaceCell(cube, n, face_name, y, x) ==
    CASE face_name = "L" -> cube_np(cube, n, y, x, 0)
      [] face_name = "F" -> cube_np(cube, n, y, n - 1, x)
      [] face_name = "R" -> cube_np(cube, n, y, n - 1 - x, n - 1)
      [] face_name = "B" -> cube_np(cube, n, y, 0, n - 1 - x)
      [] face_name = "U" -> cube_np(cube, n, 0, y, x)
      [] face_name = "D" -> cube_np(cube, n, n - 1, n - 1 - y, x)

RECURSIVE ConcatFor(_, _, _)
ConcatFor(i, n, f) == IF i >= n THEN <<>> ELSE f[i] \o ConcatFor(i + 1, n, f)

Rect(x, y, w, h, fill, stroke) ==
    [shape |-> "rect", at |-> <<x, y>>, size |-> <<w, h>>, fill |-> fill, stroke |-> stroke]

Line(x1, y1, x2, y2) ==
    [shape |-> "line", at |-> <<x1, y1>>, size |-> <<x2, y2>>, fill |-> "none",
     stroke |-> "black"]

\* center_group: the label of the center cell, -1 when there is none.
CenterGroup(cube, n, face_name, color_mode) ==
    IF n % 2 = 1 /\ color_mode = "center"
    THEN FaceCell(cube, n, face_name, (n - 1) \div 2, (n - 1) \div 2)
    ELSE -1

CenterPos(n, color_mode) ==
    IF n % 2 = 1 /\ color_mode = "center" THEN (n - 1) \div 2 ELSE -1

\* The cells painted in the face color, row by row.
PaintedCells(cube, n, face_name, color_mode) ==
    LET center_group == CenterGroup(cube, n, face_name, color_mode)
        center_pos == CenterPos(n, color_mode)
        cell == [i \in 0..(n * n - 1) |->
                    LET y == i \div n
                        x == i % n
                    IN  IF \/ center_group # 0 /\ FaceCell(cube, n, face_name, y, x) = center_group
                           \/ x = center_pos /\ y = center_pos
                        THEN <<Rect(x, y, 1, 1, FACE_COLORS[face_name], FACE_COLORS[face_name])>>
                        ELSE <<>>]
    IN  ConcatFor(0, n * n, cell)

\* A separator is left out where the other cell has the same label, zero or
\* not.
NeedsSeparator_equal_labels_joined(here, there) == there # here

\* The test of the separator toward the cell to the right or below.
NeedsSeparator(here, there) == there = 0 \/ there # here

\* The separator lines, row by row: toward the right, then toward below.
SeparatorLines(cube, n, face_name) ==
    LET cell == [i \in 0..(n * n - 1) |->
                    LET y == i \div n
                        x == i % n
                        here == FaceCell(cube, n, face_name, y, x)
                    IN  (IF x < n - 1 /\ NeedsSeparator(here, FaceCell(cube, n, face_name, y, x + 1))
                         THEN <<Line(x + 1, y, x + 1, y + 1)>> ELSE <<>>)
                        \o
                        (IF y < n - 1 /\ NeedsSeparator(here, FaceCell(cube, n, face_name, y + 1, x))
                         THEN <<Line(x, y + 1, x + 1, y + 1)>> ELSE <<>>)]
    IN  ConcatFor(0, n * n, cell)

\* The elements added to one face's group, in drawing order.
DrawFace(cube, n, face_name, color_mode) ==
    (IF color_mode = "full"
     THEN <<Rect(0, 0, n, n, FACE_COLORS[face_name], FACE_COLORS[face_name])>>
     ELSE <<>>)
    \o PaintedCells(cube, n, face_name, color_mode)
    \o SeparatorLines(cube, n, face_name)
    \o <<Rect(0, 0, n, n, "none", "black")>>

draw_svg_cube(cube_order, cube, color_mode) ==
    [face_name \in FaceNames |-> DrawFace(cube, cube_order, face_name, color_mode)]

(***************************************************************************)
(* The calls of draw_svg_cube that are checked: every order up to          *)
(* MaxOrder, the three color modes, and the cubie arrays that repeat a     *)
(* pattern of PatternLen labels; -1 is a label like any other.             *)
(***************************************************************************)
MaxOrder == 3
PatternLen == 5

CubieLabels == {-1, 0, 1, 2}
ColorModes == {"white", "center", "full"}

PatternCube(n, pattern) ==
    [i \in 1..(n * n * n) |-> pattern[((i - 1) % Len(pattern)) + 1]]

SvgCalls ==
    {[status |-> "called", cube_order |-> n, cube |-> PatternCube(n, pattern),
      color_mode |-> mode] :
        n \in 1..MaxOrder, pattern \in [1..PatternLen -> CubieLabels], mode \in ColorModes}

InitSvg ==
    /\ cube_text = <<>>
    /\ decoder = "svg"
    /\ decoded = NotRun
    /\ edges = {}
    /\ capacities = <<>>
    /\ categories = NotRun
    /\ edge_labels = <<>>
    /\ show = <<TRUE, TRUE>>
    /\ edge_attrs = NotRun
    /\ render = IdleRender
    /\ batch = IdleBatch
    /\ legend = NotRun
    /\ svg \in SvgCalls

DrawSvg ==
    /\ svg.status = "called"
    /\ svg' = [status |-> "ok", cube_order |-> svg.cube_order, cube |-> svg.cube,
               color_mode |-> svg.color_mode,
               faces |-> draw_svg_cube(svg.cube_order, svg.cube, svg.color_mode)]
    /\ UNCHANGED <<cube_text, decoder, decoded, edges, capacities, categories,
                   edge_labels, show, edge_attrs, render, batch, legend>>

NextSvg == DrawSvg

SpecSvg == InitSvg /\ [][NextSvg]_vars

SvgDrawn == svg.status = "ok"

\* The label of the face cell as the face is seen, read from the array.
SeenLabel(face_name, y, x) ==
    LET n == svg.cube_order
        at(i, j, k) == svg.cube[i * n * n + j * n + k + 1]
    IN  CASE face_name = "L" -> at(y, x, 0)
          [] face_name = "F" -> at(y, n - 1, x)
          [] face_name = "R" -> at(y, n - 1 - x, n - 1)
          [] face_name = "B" -> at(y, 0, n - 1 - x)
          [] face_name = "U" -> at(0, y, x)
          [] face_name = "D" -> at(n - 1, n - 1 - y, x)

CountOf(elements, e) == Cardinality({i \in 1..Len(elements) : elements[i] = e})

LinesOf(elements) == {i \in 1..Len(elements) : elements[i].shape = "line"}

BordersOf(elements) ==
    {i \in 1..Len(elements) : elements[i].shape = "rect" /\ elements[i].fill = "none"}

\* Two adjacent cells are parted: their labels differ or one of them is 0.
Parted(a, b) == a # b \/ a = 0 \/ b = 0

\* C12: on every face a separator line lies between two horizontally or
\* vertically adjacent cells exactly when their labels differ or the
\* neighbour's label is 0, there is exactly one border rectangle, and a cube
\* of order 1 has no separator line at all.
C12_SeparatorsAndBorder ==
    SvgDrawn =>
        \A face_name \in FaceNames :
            LET n == svg.cube_order
                drawn == svg.faces[face_name]
                right == {<<y, x>> \in (0..(n - 1)) \X (0..(n - 2)) :
                             Parted(SeenLabel(face_name, y, x), SeenLabel(face_name, y, x + 1))}
                below == {<<y, x>> \in (0..(n - 2)) \X (0..(n - 1)) :
                             Parted(SeenLabel(face_name, y, x), SeenLabel(face_name, y + 1, x))}
            IN  /\ \A y \in 0..(n - 1), x \in 0..(n - 2) :
                       CountOf(drawn, Line(x + 1, y, x + 1, y + 1))
                           = IF <<y, x>> \in right THEN 1 ELSE 0
                /\ \A y \in 0..(n - 2), x \in 0..(n - 1) :
                       CountOf(drawn, Line(x, y + 1, x + 1, y + 1))
                           = IF <<y, x>> \in below THEN 1 ELSE 0
                /\ Cardinality(LinesOf(drawn)) = Cardinality(right) + Cardinality(below)
                /\ Cardinality(BordersOf(drawn)) = 1
                /\ drawn[Len(drawn)] = Rect(0, 0, n, n, "none", "black")
                /\ n = 1 => LinesOf(drawn) = {}

\* An order 3 face with a separator missing between two cells of one nonzero
\* label, and one drawn between two cells labelled 0.
C12_Witness ==
    /\ SvgDrawn /\ svg.cube_order = 3
    /\ \E y \in 0..2, x \in 0..1 :
          /\ SeenLabel("U", y, x) = 1 /\ SeenLabel("U", y, x + 1) = 1
          /\ CountOf(svg.faces["U"], Line(x + 1, y, x + 1, y + 1)) = 0
    /\ \E y \in 0..1, x \in 0..2 :
          /\ SeenLabel("F", y, x) = 0 /\ SeenLabel("F", y + 1, x) = 0
          /\ CountOf(svg.faces["F"], Line(x, y + 1, x + 1, y + 1)) = 1

\* The elements drawn by the loop over the cells: the filled rectangles but
\* for the face-wide one that "full" mode draws first.
CellPaint(face_name) ==
    LET drawn == svg.faces[face_name]
        first == IF svg.color_mode = "full" THEN 2 ELSE 1
    IN  {i \in first..Len(drawn) : drawn[i].shape = "rect" /\ drawn[i].fill # "none"}

PaintedOnce(face_name, y, x) ==
    LET drawn == svg.faces[face_name]
        color == FACE_COLORS[face_name]
    IN  Cardinality({i \in CellPaint(face_name) : drawn[i] = Rect(x, y, 1, 1, color, color)}) = 1

HasCenter == svg.cube_order % 2 = 1 /\ svg.color_mode = "center"

\* In "center" mode on an odd order the painted cells are the center cell and
\* the cells that share its nonzero label.
CenterGroupPainted ==
    (SvgDrawn /\ HasCenter) =>
        \A face_name \in FaceNames :
            LET n == svg.cube_order
                c == (n - 1) \div 2
                center == SeenLabel(face_name, c, c)
                group == {<<y, x>> \in (0..(n - 1)) \X (0..(n - 1)) :
                             \/ y = c /\ x = c
                             \/ center # 0 /\ SeenLabel(face_name, y, x) = center}
            IN  /\ \A cell \in group : PaintedOnce(face_name, cell[1], cell[2])
                /\ Cardinality(CellPaint(face_name)) = Cardinality(group)

NoCellPainted ==
    (SvgDrawn /\ ~HasCenter) => \A face_name \in FaceNames : CellPaint(face_name) = {}

\* C16: in "center" mode on an odd order a cell is painted exactly when it is
\* the center cell or shares a nonzero label with it; on even orders, and in
\* "white" and "full" mode on every order, no cell is painted, whatever the
\* labels of the array.
C16_CellColoring == CenterGroupPainted /\ NoCellPainted

\* What holds where no cell is to be painted: none is, as long as the array
\* holds no label -1.
NoCellPaintedWithoutMinusOne ==
    (SvgDrawn /\ ~HasCenter /\ \A i \in 1..Len(svg.cube) : svg.cube[i] # -1)
        => \A face_name \in FaceNames : CellPaint(face_name) = {}

(***************************************************************************)
(* Claims about the capacities of the tiers (under SpecCat).               *)
(***************************************************************************)
\* The capacity of the k-th tier, 0 when the table has no entry for it.
TierCapacity(k) ==
    LET name == node_categories_thresholds_names[k]
    IN  IF name \in DOMAIN capacities THEN capacities[name] ELSE 0

\* The capacities of the first k tiers together.
RECURSIVE CumulativeCapacity(_)
CumulativeCapacity(k) == IF k = 0 THEN 0 ELSE CumulativeCapacity(k - 1) + TierCapacity(k)

GraphNodesOf == {e[1] : e \in edges} \cup {e[2] : e \in edges}

\* The running total when the group of degree d has been added: the nodes of
\* that degree or higher.
RunningTotal(d) == Cardinality({n \in GraphNodesOf : TrueDegree(n) >= d})

\* C14: the degree groups are taken from the highest degree down with a
\* running total of nodes; a group gets the first tier whose cumulative
\* capacity is at least the running total that includes the group, and "none"
\* when the total is above the cumulative capacity of all four tiers.
C14_FirstTierThatHolds ==
    Categorized =>
        \A d \in DOMAIN categories.nodes_degree_categories :
            LET fits == {k \in 1..4 : CumulativeCapacity(k) >= RunningTotal(d)}
            IN  categories.nodes_degree_categories[d] =
                    IF fits = {} THEN "none"
                    ELSE node_categories_thresholds_names[
                             CHOOSE k \in fits : \A j \in fits : k <= j]

\* Two degree groups of one graph: the higher in a tier after "cube" although
\* "cube" has capacity, the lower sent to "none" because the running total is
\* above the capacity of all four tiers.
C14_Witness ==
    /\ Categorized
    /\ \E a \in DOMAIN categories.nodes_degree_categories :
       \E b \in DOMAIN categories.nodes_degree_categories :
           /\ a > b
           /\ categories.nodes_degree_categories[a] \in {"circle_with_label", "circle"}
           /\ categories.nodes_degree_categories[b] = "none"
           /\ TierCapacity(1) > 0
           /\ RunningTotal(b) > CumulativeCapacity(4)

\* The nodes in the k-th tier, and in the first k tiers.
Occupancy(k) ==
    Cardinality({n \in GraphNodesOf : TierRank(TierOfNode(n)) = k - 1})

OccupancyUpTo(k) ==
    Cardinality({n \in GraphNodesOf : TierRank(TierOfNode(n)) <= k - 1})

\* C19: the nodes in a tier and the tiers before it never outnumber the
\* capacities of those tiers together; so "cube" never holds more than its own
\* capacity, a tier of capacity 0 holds nothing, and a later tier goes beyond
\* its own capacity by no more than what the earlier tiers left unused.
C19_OccupancyWithinCumulativeCapacity ==
    Categorized =>
        /\ \A k \in 1..4 : OccupancyUpTo(k) <= CumulativeCapacity(k)
        /\ Occupancy(1) <= TierCapacity(1)
        /\ \A k \in 1..4 :
               TierCapacity(k) = 0 =>
                   \A d \in DOMAIN categories.nodes_degree_categories :
                       categories.nodes_degree_categories[d]
                           # node_categories_thresholds_names[k]
        /\ \A k \in 2..4 :
               Occupancy(k) <= TierCapacity(k)
                                  + (CumulativeCapacity(k - 1) - OccupancyUpTo(k - 1))

\* A tier after "cube" that holds more nodes than its own capacity, thanks to
\* the capacity "cube" left unused.
C19_Witness ==
    /\ Categorized
    /\ \E k \in 2..4 :
          /\ TierCapacity(k) > 0
          /\ Occupancy(k) > TierCapacity(k)
          /\ OccupancyUpTo(k - 1) < CumulativeCapacity(k - 1)

(***************************************************************************)
(* The template of connections (under SpecHex).                            *)
(***************************************************************************)
Distance(a, b) ==
    LET abs(v) == IF v < 0 THEN 0 - v ELSE v
    IN  abs(a[1] - b[1]) + abs(a[2] - b[2]) + abs(a[3] - b[3])

\* The pairs of cubies of a 3x3x3 cube that touch face to face.
FaceToFacePairs == {{a, b} : <<a, b>> \in {p \in Cubies \X Cubies : Distance(p[1], p[2]) = 1}}

\* C15: the template is 54 pairwise distinct unordered pairs of cubies that
\* differ by 1 in exactly one coordinate, and every face-to-face pair of the
\* cube occurs exactly once in it; so a signature with one bit set joins the two
\* cubies of that position and no others.
C15_TemplateIsEveryAdjacencyOnce ==
    LET conns == generate_hex_signature_connections
        pair(i) == {conns[i][1], conns[i][2]}
    IN  /\ Len(conns) = 54
        /\ Cardinality(FaceToFacePairs) = 54
        /\ \A i \in 1..Len(conns) :
               /\ conns[i][1] \in Cubies /\ conns[i][2] \in Cubies
               /\ Distance(conns[i][1], conns[i][2]) = 1
               /\ \A j \in 1..Len(conns) : i # j => pair(i) # pair(j)
        /\ \A adjacency \in FaceToFacePairs :
               Cardinality({i \in 1..Len(conns) : pair(i) = adjacency}) = 1
        /\ (HexReturned /\ IsSignature(cube_text)) =>
               \A i \in LiveBits(cube_text) :
                   /\ LabelOf(conns[i][1]) # 0
                   /\ LabelOf(conns[i][1]) = LabelOf(conns[i][2])
        /\ (HexReturned /\ IsSignature(cube_text)
                /\ Cardinality(LiveBits(cube_text)) = 1) =>
               \A i \in LiveBits(cube_text) :
                   {c \in Cubies : LabelOf(c) # 0} = pair(i)

\* A signature with one bit set, decoded to an array with two labelled cubies.
C15_Witness ==
    /\ HexReturned /\ IsSignature(cube_text)
    /\ Cardinality(LiveBits(cube_text)) = 1
    /\ Cardinality({c \in Cubies : LabelOf(c) # 0}) = 2

(***************************************************************************)
(* draw_legend: the index table of the "circle_with_label" nodes and the   *)
(* start cube.  Of each thumbnail only the file, the color mode and the    *)
(* label are kept; the table is the rows of <td> cells.                    *)
(***************************************************************************)
LEGEND_CONFIG == [cube_index_rows |-> 8, max_allowed_index_size |-> 200]

\* sorted(list of distinct integers)
Sorted(S) ==
    [i \in 1..Cardinality(S) |-> CHOOSE x \in S : Cardinality({m \in S : m <= x}) = i]

all_nodes_for_index(nodes_degree_categories, inv) ==
    Sorted(UNION {inv[d] : d \in {d \in DOMAIN nodes_degree_categories :
                                     nodes_degree_categories[d] = "circle_with_label"}})

\* A column size that rounds the quotient up.
ColumnSize_rounded_up(n) ==
    (n + LEGEND_CONFIG.cube_index_rows - 1) \div LEGEND_CONFIG.cube_index_rows

\* column_size: the quotient by cube_index_rows, 1 when that is 0.
ColumnSize(n) ==
    IF n \div LEGEND_CONFIG.cube_index_rows = 0 THEN 1
    ELSE n \div LEGEND_CONFIG.cube_index_rows

\* all_nodes_for_index[k : k + column_size] for k in range(0, n, column_size)
index_nodes_rows(all) ==
    LET n == Len(all)
        column_size == ColumnSize(n)
        starts == {k \in 0..(n - 1) : k % column_size = 0}
    IN  [r \in 1..Cardinality(starts) |->
            SubSeq(all, (r - 1) * column_size + 1,
                   IF r * column_size < n THEN r * column_size ELSE n)]

Thumbnail(node) == [file |-> node, color_mode |-> "center", label |-> node]

draw_legend(nodes_degree_categories, inv) ==
    LET all == all_nodes_for_index(nodes_degree_categories, inv)
        built == 0 < Len(all) /\ Len(all) <= LEGEND_CONFIG.max_allowed_index_size
        rows == index_nodes_rows(all)
    IN  [status |-> "ok",
         index |-> IF built
                   THEN [r \in 1..Len(rows) |->
                            [c \in 1..Len(rows[r]) |-> Thumbnail(rows[r][c])]]
                   ELSE <<>>,
         index_node |-> IF built THEN "index" ELSE "None",
         svg_files |-> (IF built THEN {all[i] : i \in 1..Len(all)} ELSE {}),
         start |-> [file |-> "start", color_mode |-> "full"],
         index_edge |-> built]

(***************************************************************************)
(* The calls of draw_legend that are checked: node 0 is the start cube,    *)
(* the nodes 1..n are "circle_with_label" in one or two degree groups, one *)
(* more node is a plain circle.                                            *)
(***************************************************************************)
MaxLegendNodes == 201

LegendInput(n, two_groups) ==
    LET high == IF two_groups THEN {i \in 1..n : i % 3 = 0} ELSE {}
        low == (1..n) \ high
        groups == (9 :> {0}) @@ (1 :> {n + 1})
                  @@ (IF high # {} THEN 5 :> high ELSE <<>>)
                  @@ (IF low # {} THEN 4 :> low ELSE <<>>)
    IN  [status |-> "called",
         nodes_degrees_inv |-> groups,
         nodes_degree_categories |->
             [d \in DOMAIN groups |->
                 CASE d = 9 -> "cube" [] d = 1 -> "circle" [] OTHER -> "circle_with_label"]]

LegendCalls == {LegendInput(n, two_groups) : n \in 0..MaxLegendNodes, two_groups \in BOOLEAN}

InitLegend ==
    /\ cube_text = <<>>
    /\ decoder = "legend"
    /\ decoded = NotRun
    /\ edges = {}
    /\ capacities = <<>>
    /\ categories = NotRun
    /\ edge_labels = <<>>
    /\ show = <<TRUE, TRUE>>
    /\ edge_attrs = NotRun
    /\ render = IdleRender
    /\ batch = IdleBatch
    /\ svg = NotRun
    /\ legend \in LegendCalls

DrawLegend ==
    /\ legend.status = "called"
    /\ legend' = [draw_legend(legend.nodes_degree_categories, legend.nodes_degrees_inv)
                     EXCEPT !.status = "ok"]
                 @@ legend
    /\ UNCHANGED <<cube_text, decoder, decoded, edges, capacities, categories,
                   edge_labels, show, edge_attrs, render, batch, svg>>

NextLegend == DrawLegend

SpecLegend == InitLegend /\ [][NextLegend]_vars

LegendDrawn == legend.status = "ok"

\* The "circle_with_label" nodes handed to draw_legend.
IndexedNodes ==
    UNION {legend.nodes_degrees_inv[d] :
              d \in {d \in DOMAIN legend.nodes_degree_categories :
                        legend.nodes_degree_categories[d] = "circle_with_label"}}

\* The table is built exactly for 1 to 200 nodes, and each node is in exactly
\* one cell, labelled with its id.
IndexHoldsEachNodeOnce ==
    LET n == Cardinality(IndexedNodes)
        cells == UNION {{<<r, c>> : c \in 1..Len(legend.index[r])} :
                           r \in 1..Len(legend.index)}
    IN  IF n = 0 \/ n > 200
        THEN legend.index_node = "None" /\ legend.index = <<>>
        ELSE /\ legend.index_node = "index"
             /\ \A r \in 1..Len(legend.index) : \A c \in 1..Len(legend.index[r]) :
                    /\ legend.index[r][c].file \in IndexedNodes
                    /\ legend.index[r][c].label = legend.index[r][c].file
             /\ Cardinality(cells) = n
             /\ \A node \in IndexedNodes :
                    \E rc \in cells : legend.index[rc[1]][rc[2]].file = node

\* C17 as stated: for 1 to 200 "circle_with_label" nodes the index table has
\* the configured 8 rows whatever the number of nodes, each node in exactly one
\* cell labelled with its id; for 0 or more than 200 nodes there is no table.
C17_IndexHasEightRows ==
    LegendDrawn =>
        /\ IndexHoldsEachNodeOnce
        /\ legend.index_node = "index" => Len(legend.index) = 8

\* C17, amended: the table has ceil(n / c) rows of c = max(1, n div 8) cells
\* (the last row may be shorter), the nodes in ascending order: n rows below
\* 16 nodes, 8 to 15 rows from 8 nodes on, 8 rows when 8 divides n.
C17_IndexRowsFollowColumnSize ==
    LegendDrawn =>
        /\ IndexHoldsEachNodeOnce
        /\ legend.index_node = "index" =>
               LET n == Cardinality(IndexedNodes)
                   c == IF n < 8 THEN 1 ELSE n \div 8
                   rows == Len(legend.index)
               IN  /\ rows = (n + c - 1) \div c
                   /\ \A r \in 1..(rows - 1) : Len(legend.index[r]) = c
                   /\ Len(legend.index[rows]) \in 1..c
                   /\ \A r \in 1..rows : \A k \in 1..Len(legend.index[r]) :
                          Cardinality({m \in IndexedNodes : m <= legend.index[r][k].file})
                              = (r - 1) * c + k
                   /\ n < 16 => rows = n
                   /\ n >= 8 => rows \in 8..15
                   /\ n % 8 = 0 => rows = 8

\* 17 nodes in two degree groups, laid out in 9 rows.
C17_Witness ==
    /\ LegendDrawn
    /\ Cardinality(IndexedNodes) = 17
    /\ Cardinality({d \in DOMAIN legend.nodes_degree_categories :
                       legend.nodes_degree_categories[d] = "circle_with_label"}) = 2
    /\ Len(legend.index) = 9

(***************************************************************************)
(* The visibility of edge labels and arrowheads (under Spec).              *)
(***************************************************************************)
EdgesStyledInRender == render.show # <<>>

\* C18: labels are shown exactly when the number of edges is at most
\* SHOW_EDGE_LABELS_MAX, arrowheads exactly when it is at most
\* SHOW_EDGE_ARROWS_MAX: the same convention at both limits, each flag decided
\* from the count alone.
C18_SameBoundaryForLabelsAndArrows ==
    EdgesStyledInRender =>
        /\ render.show[1] = (render.n_edges <= SHOW_EDGE_LABELS_MAX)
        /\ render.show[2] = (render.n_edges <= SHOW_EDGE_ARROWS_MAX)

\* What holds: the labels follow "at most", the arrowheads "fewer than".
LabelsInclusiveArrowsExclusive ==
    EdgesStyledInRender =>
        /\ render.show[1] = (render.n_edges <= SHOW_EDGE_LABELS_MAX)
        /\ render.show[2] = (render.n_edges < SHOW_EDGE_ARROWS_MAX)

====
